---- MODULE Spec2Model ----
(***************************************************************************)
(* Homomorphic Battleship (game.py): two Players, each with a plaintext    *)
(* grid, a Paillier-encrypted grid and an opponent-visible guess board,    *)
(* and the match loop of main() that alternates attacks and decides the    *)
(* winner from the decrypted homomorphic sum of the defender's grid.       *)
(*                                                                         *)
(* The board is scaled down: GRID_SIZE, SHIP_SIZES and the range of Bob's  *)
(* random draw are the program's configuration at a size TLC can explore   *)
(* exhaustively (the program ships with 10, [5,4,3,2,2] and randint(0,9)). *)
(* The Paillier scheme of the phe library is modelled by its arithmetic    *)
(* over toy primes.                                                        *)
(*                                                                         *)
(* The configuration in effect (GRID_SIZE, SHIP_SIZES and the literal of   *)
(* Bob's draw) is state that no step changes: Spec starts from the shipped *)
(* configuration, SpecConfig from any of a set of edited ones.             *)
(***************************************************************************)
EXTENDS Integers, Sequences, FiniteSets, TLC

\* ------------------------------------------------------------ configuration

\* game.py:7 (scaled from 10)
GRID_SIZE == 2

\* game.py:8 (scaled from [5, 4, 3, 2, 2])
SHIP_SIZES == <<2, 1>>

\* game.py:201, the literal 9 of random.randint(0, 9); equal to GRID_SIZE - 1
\* in the shipped configuration, and scaled with it here.
BOB_RAND_MAX == 1

\* game.py:159, ord('A')
ORD_A == 65

Players == {"Alice", "Bob"}


\* ------------------------------------------------------- Paillier (phe)

\* paillier.generate_paillier_keypair(): one key pair per player, n = p * q.
KeyP(p) == IF p = "Alice" THEN 5 ELSE 3

KeyQ(p) == IF p = "Alice" THEN 7 ELSE 11

KeyN(p) == KeyP(p) * KeyQ(p)

NSquare(p) == KeyN(p) * KeyN(p)

\* PaillierPublicKey.max_int = n // 3 - 1
MaxInt(p) == (KeyN(p) \div 3) - 1

\* The obfuscators r an encryption may draw (get_random_lt_n), here units
\* modulo both players' n.
Obfuscators == {2, 4}

RECURSIVE PowMod(_, _, _)
PowMod(b, e, m) ==
    IF e = 0 THEN 1 % m
    ELSE IF e % 2 = 0 THEN PowMod((b * b) % m, e \div 2, m)
    ELSE (b * PowMod((b * b) % m, e \div 2, m)) % m

RECURSIVE Gcd(_, _)
Gcd(a, b) == IF b = 0 THEN a ELSE Gcd(b, a % b)

Lcm(a, b) == (a * b) \div Gcd(a, b)

\* EncodedNumber.encode for an integer: the value mod n (negatives wrap).
Encode(p, m) == m % KeyN(p)

\* EncodedNumber.decode: small residues are positive, residues close to n are
\* negative; anything between is an overflow, returned here as n itself
\* (no integer decodes to n).
Decode(p, x) ==
    IF x <= MaxInt(p) THEN x
    ELSE IF x >= KeyN(p) - MaxInt(p) THEN x - KeyN(p)
    ELSE KeyN(p)

\* r^n mod n^2, the obfuscation factor of an encryption, per key and r.
ObfuscatorPower ==
    [p \in Players |-> [r \in Obfuscators |-> PowMod(r, KeyN(p), NSquare(p))]]

\* public_key.encrypt(m) with obfuscator r: (1 + n)^m * r^n mod n^2, where
\* (1 + n)^m = 1 + n * m mod n^2.
Encrypt(p, m, r) ==
    ((1 + KeyN(p) * Encode(p, m)) * ObfuscatorPower[p][r]) % NSquare(p)

\* Mutant of HomAdd: ciphertexts added as integers instead of multiplied.
HomAdd_Plus(p, a, b) == (a + b) % NSquare(p)

\* EncryptedNumber.__add__ of two ciphertexts: their product mod n^2.
HomAdd(p, a, b) == (a * b) % NSquare(p)

LFun(p, u) == (u - 1) \div KeyN(p)

Lambda(p) == Lcm(KeyP(p) - 1, KeyQ(p) - 1)

\* invert(a, n) for a unit a of Z_n, n = p * q: a^(phi(n) - 1) mod n.
Invert(p, a) == PowMod(a, (KeyP(p) - 1) * (KeyQ(p) - 1) - 1, KeyN(p))

\* The private key's mu = L(g^lambda mod n^2)^-1 mod n, with g = n + 1.
Mu == [p \in Players |->
          Invert(p, LFun(p, PowMod(1 + KeyN(p), Lambda(p), NSquare(p))) % KeyN(p))]

\* raw_decrypt of every residue c mod n^2: L(c^lambda mod n^2) * mu mod n.
RawDecrypt ==
    [p \in Players |->
        [c \in 0 .. (NSquare(p) - 1) |->
            (LFun(p, PowMod(c, Lambda(p), NSquare(p))) * Mu[p]) % KeyN(p)]]

\* private_key.decrypt(c): raw_decrypt, then decode.
Decrypt(p, c) == Decode(p, RawDecrypt[p][c])

\* game.py:25, the None placeholder of encrypted_grid before encryption
\* (0 is not a Paillier ciphertext).
None == 0

\* --------------------------------------------------------------- state

VARIABLES
    grid_size,       \* the value GRID_SIZE is configured to
    ship_sizes,      \* the value SHIP_SIZES is configured to
    bob_rand_max,    \* the upper literal of Bob's random.randint
    plain_grid,      \* [Players -> [Cells -> {0, 1}]]
    encrypted_grid,  \* [Players -> [Cells -> ciphertext or None]]
    guess_board,     \* [Players -> [Cells -> {".", "X", "O"}]]
    ctor,            \* the Player whose constructor is running
    ship_idx,        \* index into SHIP_SIZES of the ship place_ships is placing
    turn_count,
    game_over,
    attacker,
    defender,
    row,
    col,
    outcome,         \* what the last attack step printed: Hit, Miss, AlreadyAttacked
    remaining_life,
    winner,
    pc,              \* place, encrypt, loop, coords, attack, wincheck, done,
                     \* IndexError; api; twin
    rand_pool,       \* the obfuscators the random source yields in this run
    calls,           \* method calls made by a direct caller of a Player
    last_op,         \* history: the method the direct caller invoked last
    fleet,           \* history: the cells of each ship set_ship wrote, per player
    placed_grid,     \* history: plain_grid as place_ships left it, per player
    hits,            \* history: Hit outcomes resolved against each player
    resolved,        \* history: coordinates an attack step was resolved on, per player
    lazy,            \* the controller that asks the health oracle after a Hit only
    observed         \* what the opponent saw of each of two boards attacked alike

vars ==
    <<grid_size, ship_sizes, bob_rand_max, plain_grid, encrypted_grid, guess_board,
      ctor, ship_idx, turn_count, game_over, attacker, defender, row, col, outcome,
      remaining_life, winner, pc, rand_pool, calls, last_op, fleet, placed_grid,
      hits, resolved, lazy, observed>>

config == <<grid_size, ship_sizes, bob_rand_max>>

\* Player.__init__ lines 21-29: range(GRID_SIZE), and the index pairs of a grid.
Rows == 0 .. (grid_size - 1)

Cells == Rows \X Rows

callerVars == <<rand_pool, calls, last_op>>

boards == <<plain_grid, encrypted_grid, guess_board>>

history == <<fleet, placed_grid, hits, resolved>>

matchVars == <<turn_count, game_over, attacker, defender, row, col, outcome,
               remaining_life, winner, callerVars>>

\* Player.__init__ lines 21-29 for both players; main's locals before the loop.
\* A run of the match draws every obfuscator from one value of Obfuscators.
InitBoards ==
    /\ calls = 0
    /\ last_op = "none"
    /\ plain_grid = [p \in Players |-> [x \in Cells |-> 0]]
    /\ encrypted_grid = [p \in Players |-> [x \in Cells |-> None]]
    /\ guess_board = [p \in Players |-> [x \in Cells |-> "."]]
    /\ ship_idx = 1
    /\ turn_count = 0
    /\ game_over = FALSE
    /\ attacker = "Alice"
    /\ defender = "Bob"
    /\ row = 0
    /\ col = 0
    /\ outcome = "None"
    /\ remaining_life = -1
    /\ winner = "None"
    /\ pc = "place"
    /\ fleet = [p \in Players |-> <<>>]
    /\ placed_grid = [p \in Players |-> [x \in Cells |-> 0]]
    /\ hits = [p \in Players |-> 0]
    /\ resolved = [p \in Players |-> {}]
    /\ lazy = [game_over |-> FALSE, winner |-> "None"]
    /\ observed = [p \in Players |-> [outcome |-> "None", remaining_life |-> -1]]

\* game.py as shipped: lines 7, 8 and 201.
InitShipped ==
    /\ grid_size = GRID_SIZE
    /\ ship_sizes = SHIP_SIZES
    /\ bob_rand_max = BOB_RAND_MAX

Init ==
    /\ InitShipped
    /\ InitBoards
    /\ ctor = "Alice"
    /\ rand_pool \in {{r} : r \in Obfuscators}

\* ----------------------------------------------------------- placement

\* Mutant of is_valid_placement: the occupied-cell tests are missing.
is_valid_placement_NoOverlapTest(grid, r, c, size, orientation) ==
    IF orientation = "H"
    THEN c + size <= grid_size
    ELSE r + size <= grid_size

\* Mutant of is_valid_placement: the edge tests of lines 50 and 54 are off by
\* one, a ship that ends on the last row or column is rejected.
is_valid_placement_EdgeOffByOne(grid, r, c, size, orientation) ==
    IF orientation = "H"
    THEN IF c + size >= grid_size THEN FALSE
         ELSE \A cc \in c .. (c + size - 1) : grid[<<r, cc>>] # 1
    ELSE IF r + size >= grid_size THEN FALSE
         ELSE \A rr \in r .. (r + size - 1) : grid[<<rr, c>>] # 1

\* Player.is_valid_placement
is_valid_placement(grid, r, c, size, orientation) ==
    IF orientation = "H"
    THEN IF c + size > grid_size THEN FALSE
         ELSE \A cc \in c .. (c + size - 1) : grid[<<r, cc>>] # 1
    ELSE IF r + size > grid_size THEN FALSE
         ELSE \A rr \in r .. (r + size - 1) : grid[<<rr, c>>] # 1

\* The cells Player.set_ship writes.
ShipCells(r, c, size, orientation) ==
    IF orientation = "H"
    THEN {<<r, cc>> : cc \in c .. (c + size - 1)}
    ELSE {<<rr, c>> : rr \in r .. (r + size - 1)}

\* Player.set_ship
set_ship(grid, r, c, size, orientation) ==
    [x \in Cells |-> IF x \in ShipCells(r, c, size, orientation) THEN 1 ELSE grid[x]]

\* One iteration of place_ships' while loop for the ship at ship_idx: a random
\* orientation and anchor, accepted if valid, retried otherwise. Accepting the
\* last ship ends place_ships.
PlaceTry ==
    /\ pc = "place"
    /\ \E orientation \in {"H", "V"}, r \in Rows, c \in Rows :
         LET size == ship_sizes[ship_idx] IN
         IF is_valid_placement(plain_grid[ctor], r, c, size, orientation)
         THEN LET g == set_ship(plain_grid[ctor], r, c, size, orientation) IN
              /\ plain_grid' = [plain_grid EXCEPT ![ctor] = g]
              /\ fleet' = [fleet EXCEPT
                             ![ctor] = Append(@, ShipCells(r, c, size, orientation))]
              /\ IF ship_idx = Len(ship_sizes)
                 THEN /\ pc' = "encrypt"
                      /\ ship_idx' = 1
                      /\ placed_grid' = [placed_grid EXCEPT ![ctor] = g]
                 ELSE /\ pc' = "place"
                      /\ ship_idx' = ship_idx + 1
                      /\ UNCHANGED placed_grid
              /\ UNCHANGED <<config, lazy, observed, encrypted_grid,
                             guess_board, ctor, matchVars, hits, resolved>>
         ELSE UNCHANGED vars

\* ---------------------------------------------------------- encryption

\* Player.encrypt_initial_board: every cell of plain_grid encrypted under the
\* player's public key, each with its own obfuscator. It ends the constructor:
\* Bob's follows Alice's, and main's loop follows Bob's.
encrypt_initial_board(p, obf) ==
    encrypted_grid' =
        [encrypted_grid EXCEPT
            ![p] = [x \in Cells |-> Encrypt(p, plain_grid[p][x], obf[x])]]

EncryptBoard ==
    /\ pc = "encrypt"
    /\ \E obf \in [Cells -> rand_pool] : encrypt_initial_board(ctor, obf)
    /\ IF ctor = "Alice"
       THEN /\ ctor' = "Bob"
            /\ pc' = "place"
       ELSE /\ ctor' = ctor
            /\ pc' = "loop"
    /\ UNCHANGED <<config, lazy, observed, plain_grid, guess_board, ship_idx,
                   matchVars, history>>

\* ------------------------------------------------------------- attacks

\* receive_attack line 87
IsHit(p, r, c) == plain_grid[p][<<r, c>>] = 1

\* Mutant of receive_attack: line 109 forgotten, plain_grid keeps its 1.
receive_attack_KeepPlain(p, r, c, obf) ==
    /\ guess_board' =
         [guess_board EXCEPT ![p][<<r, c>>] = IF IsHit(p, r, c) THEN "X" ELSE "O"]
    /\ IF IsHit(p, r, c)
       THEN /\ encrypted_grid' =
                 [encrypted_grid EXCEPT
                     ![p][<<r, c>>] = HomAdd(p, @, Encrypt(p, -1, obf))]
            /\ UNCHANGED plain_grid
       ELSE UNCHANGED <<plain_grid, encrypted_grid>>

\* Mutant of receive_attack: lines 102-106 forgotten, the ciphertext keeps its 1.
receive_attack_NoDecrement(p, r, c, obf) ==
    /\ guess_board' =
         [guess_board EXCEPT ![p][<<r, c>>] = IF IsHit(p, r, c) THEN "X" ELSE "O"]
    /\ IF IsHit(p, r, c)
       THEN /\ plain_grid' = [plain_grid EXCEPT ![p][<<r, c>>] = 0]
            /\ UNCHANGED encrypted_grid
       ELSE UNCHANGED <<plain_grid, encrypted_grid>>

\* Mutant of receive_attack: the decrement of lines 102-106 is applied to a
\* missed cell too.
receive_attack_AlwaysDecrement(p, r, c, obf) ==
    /\ guess_board' =
         [guess_board EXCEPT ![p][<<r, c>>] = IF IsHit(p, r, c) THEN "X" ELSE "O"]
    /\ encrypted_grid' =
         [encrypted_grid EXCEPT
             ![p][<<r, c>>] = HomAdd(p, @, Encrypt(p, -1, obf))]
    /\ IF IsHit(p, r, c)
       THEN plain_grid' = [plain_grid EXCEPT ![p][<<r, c>>] = 0]
       ELSE UNCHANGED plain_grid

\* Mutant of receive_attack: a missed cell's ciphertext is refreshed by adding
\* an encryption of 0.
receive_attack_MissRefreshes(p, r, c, obf) ==
    /\ guess_board' =
         [guess_board EXCEPT ![p][<<r, c>>] = IF IsHit(p, r, c) THEN "X" ELSE "O"]
    /\ IF IsHit(p, r, c)
       THEN /\ encrypted_grid' =
                 [encrypted_grid EXCEPT
                     ![p][<<r, c>>] = HomAdd(p, @, Encrypt(p, -1, obf))]
            /\ plain_grid' = [plain_grid EXCEPT ![p][<<r, c>>] = 0]
       ELSE /\ encrypted_grid' =
                 [encrypted_grid EXCEPT
                     ![p][<<r, c>>] = HomAdd(p, @, Encrypt(p, 0, obf))]
            /\ UNCHANGED plain_grid

\* Mutant of receive_attack: the marks of line 91 are swapped.
receive_attack_SwappedMarks(p, r, c, obf) ==
    /\ guess_board' =
         [guess_board EXCEPT ![p][<<r, c>>] = IF IsHit(p, r, c) THEN "O" ELSE "X"]
    /\ IF IsHit(p, r, c)
       THEN /\ encrypted_grid' =
                 [encrypted_grid EXCEPT
                     ![p][<<r, c>>] = HomAdd(p, @, Encrypt(p, -1, obf))]
            /\ plain_grid' = [plain_grid EXCEPT ![p][<<r, c>>] = 0]
       ELSE UNCHANGED <<plain_grid, encrypted_grid>>

\* Player.receive_attack(row, col) on player p's board; obf is the obfuscator
\* of the fresh encryption of -1. Its return value is IsHit(p, r, c).
receive_attack(p, r, c, obf) ==
    /\ guess_board' =
         [guess_board EXCEPT ![p][<<r, c>>] = IF IsHit(p, r, c) THEN "X" ELSE "O"]
    /\ IF IsHit(p, r, c)
       THEN /\ encrypted_grid' =
                 [encrypted_grid EXCEPT
                     ![p][<<r, c>>] = HomAdd(p, @, Encrypt(p, -1, obf))]
            /\ plain_grid' = [plain_grid EXCEPT ![p][<<r, c>>] = 0]
       ELSE UNCHANGED <<plain_grid, encrypted_grid>>

\* The accumulation loop of check_health_homomorphically, row-major from cell k.
RECURSIVE SumEncrypted(_, _, _, _)
SumEncrypted(p, grid, k, acc) ==
    IF k = grid_size * grid_size THEN acc
    ELSE SumEncrypted(p, grid, k + 1,
                      HomAdd(p, acc, grid[<<k \div grid_size, k % grid_size>>]))

\* Mutant of check_health_homomorphically: the sum starts at the second cell.
check_health_homomorphically_SkipFirst(p, grid, obf) ==
    Decrypt(p, SumEncrypted(p, grid, 1, Encrypt(p, 0, obf)))

\* Player.check_health_homomorphically, obf the obfuscator of the encrypted 0.
check_health_homomorphically(p, grid, obf) ==
    Decrypt(p, SumEncrypted(p, grid, 0, Encrypt(p, 0, obf)))

\* ---------------------------------------------------------- match loop

\* Mutant of LoopHead: a wasted turn is played again by the same attacker.
LoopHead_RetryWasted ==
    /\ pc = "loop"
    /\ ~game_over
    /\ turn_count' = IF outcome = "AlreadyAttacked" THEN turn_count ELSE turn_count + 1
    /\ attacker' = IF turn_count' % 2 # 0 THEN "Alice" ELSE "Bob"
    /\ defender' = IF turn_count' % 2 # 0 THEN "Bob" ELSE "Alice"
    /\ row' = 0
    /\ col' = 0
    /\ pc' = "coords"
    /\ UNCHANGED <<config, lazy, observed, boards, ctor, ship_idx, game_over,
                   outcome, remaining_life, winner, callerVars, history>>

\* main lines 183-195: the loop test, the turn counter, the roles by parity.
LoopHead ==
    /\ pc = "loop"
    /\ ~game_over
    /\ turn_count' = turn_count + 1
    /\ attacker' = IF (turn_count + 1) % 2 # 0 THEN "Alice" ELSE "Bob"
    /\ defender' = IF (turn_count + 1) % 2 # 0 THEN "Bob" ELSE "Alice"
    /\ row' = 0
    /\ col' = 0
    /\ pc' = "coords"
    /\ UNCHANGED <<config, lazy, observed, boards, ctor, ship_idx, game_over,
                   outcome, remaining_life, winner, callerVars, history>>

\* main line 183 with game_over set: the loop, and main, end.
LoopExit ==
    /\ pc = "loop"
    /\ game_over
    /\ pc' = "done"
    /\ UNCHANGED <<config, lazy, observed, boards, ctor, ship_idx, matchVars,
                   history>>

\* get_coordinates lines 159-165: the typed row letter (its code point) and
\* column number become indices; anything outside the grid is asked again.
ParseRow(row_char) == row_char - ORD_A

ParseCol(col_num) == col_num - 1

InGrid(r, c) == 0 <= r /\ r < grid_size /\ 0 <= c /\ c < grid_size

\* main lines 196-197: Alice's turn, one prompt of get_coordinates.
AliceInput ==
    /\ pc = "coords"
    /\ attacker = "Alice"
    /\ \E row_char \in ORD_A .. (ORD_A + grid_size), col_num \in 0 .. (grid_size + 1) :
         IF InGrid(ParseRow(row_char), ParseCol(col_num))
         THEN /\ row' = ParseRow(row_char)
              /\ col' = ParseCol(col_num)
              /\ pc' = "attack"
              /\ UNCHANGED <<config, lazy, observed, boards, ctor, ship_idx,
                             turn_count, game_over, attacker, defender,
                             outcome, remaining_life, winner, callerVars,
                             history>>
         ELSE UNCHANGED vars

\* Mutant of BobGuess: the first draw is taken, guessed or not.
BobGuess_NoResample ==
    /\ pc = "coords"
    /\ attacker # "Alice"
    /\ \E r \in 0 .. bob_rand_max, c \in 0 .. bob_rand_max :
         /\ row' = r
         /\ col' = c
         /\ pc' = "attack"
    /\ UNCHANGED <<config, lazy, observed, boards, ctor, ship_idx, turn_count,
                   game_over, attacker, defender, outcome, remaining_life,
                   winner, callerVars, history>>

\* main lines 198-203: one draw of Bob's resampling loop, left on an
\* un-guessed cell. Line 202 indexes the defender's guess_board with the draw:
\* an index past the end of the list raises IndexError, which nothing catches.
BobGuess ==
    /\ pc = "coords"
    /\ attacker # "Alice"
    /\ \E r \in 0 .. bob_rand_max, c \in 0 .. bob_rand_max :
         /\ row' = r
         /\ col' = c
         /\ pc' = IF ~InGrid(r, c) THEN "IndexError"
                  ELSE IF guess_board[defender][<<r, c>>] = "." THEN "attack"
                  ELSE "coords"
    /\ UNCHANGED <<config, lazy, observed, boards, ctor, ship_idx, turn_count,
                   game_over, attacker, defender, outcome, remaining_life,
                   winner, callerVars, history>>

\* Mutant of ProcessAttack: the guard of line 209 is missing.
ProcessAttack_NoGuard ==
    /\ pc = "attack"
    /\ \E obf \in rand_pool : receive_attack(defender, row, col, obf)
    /\ outcome' = IF IsHit(defender, row, col) THEN "Hit" ELSE "Miss"
    /\ hits' = [hits EXCEPT
                  ![defender] = IF IsHit(defender, row, col) THEN @ + 1 ELSE @]
    /\ resolved' = [resolved EXCEPT ![defender] = @ \cup {<<row, col>>}]
    /\ pc' = "wincheck"
    /\ UNCHANGED <<config, lazy, observed, ctor, ship_idx, turn_count,
                   game_over, attacker, defender, row, col, remaining_life,
                   winner, callerVars, fleet, placed_grid>>

\* main lines 209-219: a guessed cell wastes the turn, any other is attacked.
ProcessAttack ==
    /\ pc = "attack"
    /\ IF guess_board[defender][<<row, col>>] # "."
       THEN /\ outcome' = "AlreadyAttacked"
            /\ UNCHANGED <<boards, hits>>
       ELSE /\ \E obf \in rand_pool : receive_attack(defender, row, col, obf)
            /\ outcome' = IF IsHit(defender, row, col) THEN "Hit" ELSE "Miss"
            /\ hits' = [hits EXCEPT
                          ![defender] = IF IsHit(defender, row, col) THEN @ + 1 ELSE @]
    /\ resolved' = [resolved EXCEPT ![defender] = @ \cup {<<row, col>>}]
    /\ pc' = "wincheck"
    /\ UNCHANGED <<config, lazy, observed, ctor, ship_idx, turn_count,
                   game_over, attacker, defender, row, col, remaining_life,
                   winner, callerVars, fleet, placed_grid>>

\* The end of a turn in the controller that consults the health oracle only
\* after a Hit and skips it after a Miss or an AlreadyAttacked outcome.
LazyWinCheck(life) ==
    IF lazy.game_over \/ outcome # "Hit" THEN lazy
    ELSE IF life = 0 THEN [game_over |-> TRUE, winner |-> attacker]
    ELSE lazy

\* Mutant of WinCheck: line 232 forgotten, the winner is announced and the loop
\* goes on.
WinCheck_FlagNotSet ==
    /\ pc = "wincheck"
    /\ \E obf \in rand_pool :
         LET life == check_health_homomorphically(defender, encrypted_grid[defender], obf) IN
         /\ remaining_life' = life
         /\ lazy' = LazyWinCheck(life)
         /\ IF life = 0
            THEN winner' = attacker
            ELSE UNCHANGED winner
    /\ UNCHANGED game_over
    /\ pc' = "loop"
    /\ UNCHANGED <<config, observed, boards, ctor, ship_idx, turn_count,
                   attacker, defender, row, col, outcome, callerVars, history>>

\* Mutant of WinCheck: the referee reads the attacker's board.
WinCheck_AttackersBoard ==
    /\ pc = "wincheck"
    /\ \E obf \in rand_pool :
         LET life == check_health_homomorphically(attacker, encrypted_grid[attacker], obf) IN
         /\ remaining_life' = life
         /\ lazy' = LazyWinCheck(life)
         /\ IF life = 0
            THEN /\ game_over' = TRUE
                 /\ winner' = attacker
            ELSE UNCHANGED <<game_over, winner>>
    /\ pc' = "loop"
    /\ UNCHANGED <<config, observed, boards, ctor, ship_idx, turn_count,
                   attacker, defender, row, col, outcome, callerVars, history>>

\* main lines 226-232: the referee's check after every turn.
WinCheck ==
    /\ pc = "wincheck"
    /\ \E obf \in rand_pool :
         LET life == check_health_homomorphically(defender, encrypted_grid[defender], obf) IN
         /\ remaining_life' = life
         /\ lazy' = LazyWinCheck(life)
         /\ IF life = 0
            THEN /\ game_over' = TRUE
                 /\ winner' = attacker
            ELSE UNCHANGED <<game_over, winner>>
    /\ pc' = "loop"
    /\ UNCHANGED <<config, observed, boards, ctor, ship_idx, turn_count,
                   attacker, defender, row, col, outcome, callerVars, history>>

Next ==
    \/ PlaceTry
    \/ EncryptBoard
    \/ LoopHead
    \/ LoopExit
    \/ AliceInput
    \/ BobGuess
    \/ ProcessAttack
    \/ WinCheck

Spec == Init /\ [][Next]_vars

\* ------------------------------------------- a Player under any caller

\* The calls a direct caller makes in one run.
MaxCalls == 4

\* One Player object, constructed as main constructs it, every encryption
\* drawing its obfuscator afresh.
InitPlayer ==
    /\ InitShipped
    /\ InitBoards
    /\ ctor \in Players
    /\ rand_pool = Obfuscators

\* Player.__init__ line 32 for a Player built outside main.
CallerEncrypt ==
    /\ pc = "encrypt"
    /\ \E obf \in [Cells -> rand_pool] : encrypt_initial_board(ctor, obf)
    /\ pc' = "api"
    /\ UNCHANGED <<config, lazy, observed, plain_grid, guess_board, ctor,
                   ship_idx, matchVars, history>>

\* Player.receive_attack called directly, on any cell of the grid.
CallReceiveAttack ==
    /\ pc = "api"
    /\ calls < MaxCalls
    /\ \E r \in Rows, c \in Rows, obf \in rand_pool :
         /\ receive_attack(ctor, r, c, obf)
         /\ row' = r
         /\ col' = c
         /\ outcome' = IF IsHit(ctor, r, c) THEN "Hit" ELSE "Miss"
         /\ hits' = [hits EXCEPT ![ctor] = IF IsHit(ctor, r, c) THEN @ + 1 ELSE @]
         /\ resolved' = [resolved EXCEPT ![ctor] = @ \cup {<<r, c>>}]
    /\ calls' = calls + 1
    /\ last_op' = "receive_attack"
    /\ UNCHANGED <<config, lazy, observed, ctor, ship_idx, turn_count,
                   game_over, attacker, defender, remaining_life, winner, pc,
                   rand_pool, fleet, placed_grid>>

\* Player.check_health_homomorphically called directly.
CallCheckHealth ==
    /\ pc = "api"
    /\ calls < MaxCalls
    /\ \E obf \in rand_pool :
         remaining_life' = check_health_homomorphically(ctor, encrypted_grid[ctor], obf)
    /\ calls' = calls + 1
    /\ last_op' = "check_health"
    /\ UNCHANGED <<config, lazy, observed, boards, ctor, ship_idx, turn_count,
                   game_over, attacker, defender, row, col, outcome, winner,
                   pc, rand_pool, history>>

NextPlayer ==
    \/ PlaceTry
    \/ CallerEncrypt
    \/ CallReceiveAttack
    \/ CallCheckHealth

SpecPlayer == InitPlayer /\ [][NextPlayer]_vars

\* ------------------------------------------- two boards attacked alike

\* main lines 207-227 with player p as the defender and (r, c) as the attack:
\* the guard, receive_attack, the referee's health check; what the opponent
\* sees of it is recorded for p.
TwinResolve(p, r, c) ==
    /\ \E obf \in rand_pool, obf0 \in rand_pool :
         IF guess_board[p][<<r, c>>] # "."
         THEN /\ UNCHANGED <<boards, hits>>
              /\ observed' =
                    [observed EXCEPT
                       ![p] = [outcome |-> "AlreadyAttacked",
                               remaining_life |->
                                  check_health_homomorphically(p, encrypted_grid[p], obf0)]]
         ELSE /\ receive_attack(p, r, c, obf)
              /\ hits' = [hits EXCEPT ![p] = IF IsHit(p, r, c) THEN @ + 1 ELSE @]
              /\ observed' =
                    [observed EXCEPT
                       ![p] = [outcome |-> IF IsHit(p, r, c) THEN "Hit" ELSE "Miss",
                               remaining_life |->
                                  check_health_homomorphically(p, encrypted_grid'[p], obf0)]]
    /\ resolved' = [resolved EXCEPT ![p] = @ \cup {<<r, c>>}]

\* One attack of a sequence, resolved in the run whose defender is Alice.
TwinFirst ==
    /\ pc = "loop"
    /\ \E r \in Rows, c \in Rows :
         /\ TwinResolve("Alice", r, c)
         /\ row' = r
         /\ col' = c
    /\ pc' = "twin"
    /\ UNCHANGED <<config, lazy, ctor, ship_idx, turn_count, game_over,
                   attacker, defender, outcome, remaining_life, winner,
                   callerVars, fleet, placed_grid>>

\* The same attack resolved in the run whose defender is Bob.
TwinSecond ==
    /\ pc = "twin"
    /\ TwinResolve("Bob", row, col)
    /\ pc' = "loop"
    /\ UNCHANGED <<config, lazy, ctor, ship_idx, turn_count, game_over,
                   attacker, defender, row, col, outcome, remaining_life,
                   winner, callerVars, fleet, placed_grid>>

NextTwin ==
    \/ PlaceTry
    \/ EncryptBoard
    \/ TwinFirst
    \/ TwinSecond

SpecTwin == Init /\ [][NextTwin]_vars

\* ------------------------------------------- edited configurations

\* Configurations of lines 7, 8 and 201: the shipped one; ships that cannot fit
\* (one longer than the grid, a fleet larger than the grid); a fleet that fits
\* in some arrangements only; a one-cell grid with its one-cell ship; and
\* GRID_SIZE configured below the range of Bob's draw.
Configs ==
    { [grid_size |-> GRID_SIZE, ship_sizes |-> SHIP_SIZES, bob_rand_max |-> BOB_RAND_MAX],
      [grid_size |-> 2, ship_sizes |-> <<3>>, bob_rand_max |-> 1],
      [grid_size |-> 2, ship_sizes |-> <<2, 2, 1>>, bob_rand_max |-> 1],
      [grid_size |-> 3, ship_sizes |-> <<3, 3, 3, 1>>, bob_rand_max |-> 2],
      [grid_size |-> 2, ship_sizes |-> <<1, 1, 2>>, bob_rand_max |-> 1],
      [grid_size |-> 1, ship_sizes |-> <<1>>, bob_rand_max |-> 0],
      [grid_size |-> 2, ship_sizes |-> SHIP_SIZES, bob_rand_max |-> 2] }

InitConfig ==
    /\ \E cfg \in Configs :
          /\ grid_size = cfg.grid_size
          /\ ship_sizes = cfg.ship_sizes
          /\ bob_rand_max = cfg.bob_rand_max
    /\ InitBoards
    /\ ctor = "Alice"
    /\ rand_pool = {2}

SpecConfig == InitConfig /\ [][Next]_vars

\* ------------------------------------------------------------ fairness

\* A draw of Bob's resampling loop that lands on an un-guessed cell.
BobGuessUnknown == BobGuess /\ pc' = "attack"

\* The match loop keeps running, the human answers every prompt with a
\* coordinate of the grid sooner or later, and Bob's resampling is fair.
FairSpec ==
    /\ Spec
    /\ WF_vars(LoopHead)
    /\ WF_vars(LoopExit)
    /\ WF_vars(AliceInput)
    /\ WF_vars(BobGuessUnknown)
    /\ WF_vars(ProcessAttack)
    /\ WF_vars(WinCheck)

\* An iteration of place_ships' retry loop whose draw is accepted.
PlaceAccept == PlaceTry /\ plain_grid' # plain_grid

\* Fair random choice in place_ships: a draw that is_valid_placement accepts
\* comes up sooner or later while there is one; constructors run to their end.
FairConfig ==
    /\ SpecConfig
    /\ WF_vars(PlaceAccept)
    /\ WF_vars(EncryptBoard)

\* ------------------------------------------------- notions of the claims

\* encrypt_initial_board has run for player p.
Encrypted(p) == \A x \in Cells : encrypted_grid[p][x] # None

\* The number of cells of a grid that hold 1.
ShipParts(grid) == Cardinality({x \in Cells : grid[x] = 1})

RECURSIVE SumSeq(_)
SumSeq(q) == IF q = <<>> THEN 0 ELSE Head(q) + SumSeq(Tail(q))

Other(p) == IF p = "Alice" THEN "Bob" ELSE "Alice"

\* A horizontal or vertical run of exactly `size` cells inside the grid.
IsRun(S, size) ==
    /\ S \subseteq Cells
    /\ Cardinality(S) = size
    /\ \E r \in Rows, c \in Rows, o \in {"H", "V"} : S = ShipCells(r, c, size, o)

\* The ships from index i on can all be placed on grid, one after the other.
RECURSIVE CanPlaceAll(_, _)
CanPlaceAll(grid, i) ==
    IF i > Len(ship_sizes) THEN TRUE
    ELSE \E o \in {"H", "V"}, r \in Rows, c \in Rows :
            /\ is_valid_placement(grid, r, c, ship_sizes[i], o)
            /\ CanPlaceAll(set_ship(grid, r, c, ship_sizes[i], o), i + 1)

\* The configured ship sizes can fit on the configured board.
CanFit == CanPlaceAll([x \in Cells |-> 0], 1)

\* place_ships' retry loop has a draw that is_valid_placement accepts for the
\* ship it is placing.
HasValidPosition ==
    \E o \in {"H", "V"}, r \in Rows, c \in Rows :
       is_valid_placement(plain_grid[ctor], r, c, ship_sizes[ship_idx], o)

\* The board is large relative to the ships: the cells of the ships before
\* ship i, each of which blocks at most ship_sizes[i] of its horizontal
\* positions, cannot block all grid_size * (grid_size - ship_sizes[i] + 1) of
\* them. The shipped configuration, 10 and [5, 4, 3, 2, 2], is one.
Roomy ==
    \A i \in 1 .. Len(ship_sizes) :
       SumSeq(SubSeq(ship_sizes, 1, i - 1)) * ship_sizes[i]
          < grid_size * (grid_size - ship_sizes[i] + 1)

\* place_ships has returned for the player under construction, all ships placed.
PlacedAll(p) ==
    /\ ctor = p
    /\ pc = "encrypt"
    /\ Len(fleet[p]) = Len(ship_sizes)

\* Board initialization has ended without a full fleet and without a match.
SetupFailed ==
    /\ pc \notin {"place", "encrypt"}
    /\ turn_count = 0
    /\ \E p \in Players : Len(fleet[p]) < Len(ship_sizes)

\* -------------------------------------------------------------- claims

\* C1 (I1 consistency): for both players and every cell, once
\* encrypt_initial_board has run, and after any attacks, the ciphertext of the
\* cell decrypts to the cell's value in plain_grid.
C1_Consistency ==
    \A p \in Players :
        Encrypted(p) =>
            \A x \in Cells : Decrypt(p, encrypted_grid[p][x]) = plain_grid[p][x]

\* C1 witness: a board that took a hit, a miss and a wasted attack, whose hit
\* cell encrypted 1 at placement and decrypts to 0 now.
C1_Witness ==
    /\ outcome = "AlreadyAttacked"
    /\ \E x \in Cells :
         /\ placed_grid["Bob"][x] = 1
         /\ guess_board["Bob"][x] = "X"
         /\ Decrypt("Bob", encrypted_grid["Bob"][x]) = 0
    /\ \E y \in Cells : guess_board["Bob"][y] = "O"

\* C2 (aggregate correctness): whatever attacks a board took from whatever
\* caller, the homomorphic sum of its encrypted grid decrypts to the number of
\* 1 cells of plain_grid, and that is what check_health_homomorphically
\* returned to the caller.
C2_AggregateCorrect ==
    /\ Encrypted(ctor) =>
          \A obf \in rand_pool :
             check_health_homomorphically(ctor, encrypted_grid[ctor], obf)
                = ShipParts(plain_grid[ctor])
    /\ last_op = "check_health" => remaining_life = ShipParts(plain_grid[ctor])

\* C2 witness: the caller read 1 from a board that took two hits and a miss.
C2_Witness ==
    /\ last_op = "check_health"
    /\ remaining_life = 1
    /\ hits[ctor] = 2
    /\ \E y \in Cells : guess_board[ctor][y] = "O"
    /\ ShipParts(plain_grid[ctor]) = 1

\* C3 (idempotent guess marking): on each board, the first attack resolved on a
\* coordinate yields Hit or Miss; every later attack resolved on it yields
\* AlreadyAttacked and leaves plain_grid, encrypted_grid and guess_board, and so
\* the remaining parts, as they were.
C3_IdempotentMarking ==
    [][pc = "attack" =>
         IF <<row, col>> \in resolved[defender]
         THEN /\ outcome' = "AlreadyAttacked"
              /\ plain_grid' = plain_grid
              /\ encrypted_grid' = encrypted_grid
              /\ guess_board' = guess_board
              /\ \A obf \in rand_pool :
                    check_health_homomorphically(defender, encrypted_grid'[defender], obf)
                       = check_health_homomorphically(defender, encrypted_grid[defender], obf)
         ELSE /\ outcome' \in {"Hit", "Miss"}
              /\ <<row, col>> \in resolved'[defender]]_vars

\* C3 witness: a second attack on a cell that was hit has just been resolved.
C3_Witness ==
    /\ pc = "wincheck"
    /\ outcome = "AlreadyAttacked"
    /\ guess_board[defender][<<row, col>>] = "X"
    /\ hits[defender] = 1

\* C4 (hit accounting): a board placed with k ship parts has k minus its Hit
\* outcomes remaining; that is 0 exactly when k Hits were resolved against it
\* and above 0 before, whatever Miss and AlreadyAttacked outcomes came between.
C4_HitAccounting ==
    \A p \in Players :
        Encrypted(p) =>
            \A obf \in rand_pool :
               LET k == ShipParts(placed_grid[p])
                   life == check_health_homomorphically(p, encrypted_grid[p], obf)
               IN /\ life = k - hits[p]
                  /\ (life = 0 <=> hits[p] = k)
                  /\ (hits[p] < k => life > 0)

\* C4 witness: the k-th Hit on Bob's board, on a later turn of Alice's than her
\* k-th: a Miss or an AlreadyAttacked outcome came between the Hits.
C4_Witness ==
    /\ pc = "wincheck"
    /\ defender = "Bob"
    /\ outcome = "Hit"
    /\ hits["Bob"] = ShipParts(placed_grid["Bob"])
    /\ hits["Bob"] = 3
    /\ turn_count > 2 * hits["Bob"] - 1
    /\ \A obf \in rand_pool :
          check_health_homomorphically("Bob", encrypted_grid["Bob"], obf) = 0

\* C5 (win rule): the match finishes on a turn exactly when the defender's
\* remaining parts, computed after the turn's attack, are 0, which is exactly
\* when every cell of the defender's plain_grid is 0; the winner is that turn's
\* attacker; once game_over is set no turn is played and it is never cleared.
C5_WinRule ==
    [][/\ pc = "wincheck" =>
            /\ ~game_over
            /\ \A obf \in rand_pool :
                  LET life == check_health_homomorphically(
                                  defender, encrypted_grid[defender], obf)
                  IN /\ game_over' <=> (life = 0)
                     /\ (life = 0) <=> (\A x \in Cells : plain_grid[defender][x] = 0)
            /\ game_over' => (winner' = attacker /\ remaining_life' = 0)
       /\ pc # "wincheck" => game_over' = game_over
       /\ game_over =>
            /\ game_over'
            /\ winner' = winner
            /\ turn_count' = turn_count
            /\ UNCHANGED boards
            /\ pc' = "done"]_vars

\* C5 witness: Bob sank Alice's last part and the loop has ended.
C5_Witness ==
    /\ pc = "done"
    /\ game_over
    /\ winner = "Bob"
    /\ \A x \in Cells : plain_grid["Alice"][x] = 0
    /\ \E x \in Cells : plain_grid["Bob"][x] = 1

\* C6 (I2 turn sequencing): the first turn is turn 1 and every turn adds
\* exactly 1, whatever its outcome; Alice attacks Bob on odd turns and Bob
\* attacks Alice on even turns, so the roles differ and swap every turn, also
\* after a wasted one.
C6_TurnSequencing ==
    [][/\ pc \in {"coords", "attack", "wincheck"} =>
            /\ turn_count >= 1
            /\ attacker = (IF turn_count % 2 = 1 THEN "Alice" ELSE "Bob")
            /\ defender = (IF turn_count % 2 = 1 THEN "Bob" ELSE "Alice")
            /\ attacker # defender
       /\ (pc = "loop" /\ ~game_over) =>
            /\ turn_count' = turn_count + 1
            /\ outcome = "None" => turn_count' = 1
            /\ outcome # "None" => (attacker' = defender /\ defender' = attacker)
       /\ ~(pc = "loop" /\ ~game_over) => turn_count' = turn_count]_vars

\* C6 witness: turn 4 is Bob's, right after Alice wasted turn 3.
C6_Witness ==
    /\ pc = "coords"
    /\ turn_count = 4
    /\ outcome = "AlreadyAttacked"
    /\ attacker = "Bob"
    /\ defender = "Alice"

\* C7 (match termination): under FairSpec every match that has started reaches
\* Finished, whatever placements it started from and whatever the human
\* attacks, repeated cells included.
C7_Termination == (pc = "loop" /\ turn_count = 0) ~> game_over

\* C7 witness: a finished match in which Alice attacked one cell only, over and
\* over, and Bob won.
C7_Witness ==
    /\ game_over
    /\ winner = "Bob"
    /\ Cardinality(resolved["Bob"]) = 1
    /\ turn_count >= 6

\* C8 (Bob never repeats): the coordinate Bob submits is un-guessed on Alice's
\* guess_board, so an even turn ends in Hit or Miss, never AlreadyAttacked, and
\* marks exactly one cell of Alice's guess_board that was unknown.
C8_BobFreshCell ==
    [][(pc = "attack" /\ turn_count % 2 = 0) =>
         /\ attacker = "Bob"
         /\ guess_board["Alice"][<<row, col>>] = "."
         /\ outcome' \in {"Hit", "Miss"}
         /\ {x \in Cells : guess_board'["Alice"][x] # guess_board["Alice"][x]}
               = {<<row, col>>}
         /\ guess_board'["Alice"][<<row, col>>] \in {"X", "O"}
         /\ guess_board'["Bob"] = guess_board["Bob"]]_vars

\* C8 witness: Bob's third attack, a Miss, with two cells of Alice's board
\* guessed before it.
C8_Witness ==
    /\ pc = "wincheck"
    /\ turn_count = 6
    /\ attacker = "Bob"
    /\ outcome = "Miss"
    /\ Cardinality({x \in Cells : guess_board["Alice"][x] # "."}) = 3

\* C9 (re-marking is rejected): receive_attack, called by any caller on a cell
\* whose guess_board entry is already X or O, leaves that entry and both grids
\* as they were.
C9_RemarkRejected ==
    [][(/\ pc = "api"
        /\ calls' = calls + 1
        /\ last_op' = "receive_attack"
        /\ guess_board[ctor][<<row', col'>>] # ".") =>
           /\ guess_board' = guess_board
           /\ plain_grid' = plain_grid
           /\ encrypted_grid' = encrypted_grid]_vars

\* C10 (placement validity): when place_ships has finished for a player, ship i
\* of SHIP_SIZES occupies a horizontal or vertical run of SHIP_SIZES[i] cells
\* inside the grid, no two ships share a cell, the 1 cells of the grid are the
\* ships' cells, their number is the sum of SHIP_SIZES, and so is the remaining
\* parts value before the first turn.
C10_PlacementValid ==
    /\ \A p \in Players :
         Len(fleet[p]) = Len(SHIP_SIZES) =>
            /\ \A i \in 1 .. Len(SHIP_SIZES) : IsRun(fleet[p][i], SHIP_SIZES[i])
            /\ \A i, j \in 1 .. Len(SHIP_SIZES) :
                  i # j => fleet[p][i] \cap fleet[p][j] = {}
            /\ {x \in Cells : placed_grid[p][x] = 1}
                  = UNION {fleet[p][i] : i \in 1 .. Len(SHIP_SIZES)}
            /\ ShipParts(placed_grid[p]) = SumSeq(SHIP_SIZES)
    /\ (pc = "loop" /\ turn_count = 0) =>
          \A p \in Players, obf \in rand_pool :
             /\ plain_grid[p] = placed_grid[p]
             /\ check_health_homomorphically(p, encrypted_grid[p], obf)
                   = SumSeq(SHIP_SIZES)

\* C10 witness: both fleets are placed, Alice's first ship vertically and
\* Bob's horizontally, and the match is about to start.
C10_Witness ==
    /\ pc = "loop"
    /\ turn_count = 0
    /\ fleet["Alice"][1] = {<<0, 1>>, <<1, 1>>}
    /\ fleet["Bob"][1] = {<<1, 0>>, <<1, 1>>}
    /\ Len(fleet["Alice"]) = Len(SHIP_SIZES)
    /\ Len(fleet["Bob"]) = Len(SHIP_SIZES)

\* C11 (configuration error): when the configured ship sizes cannot fit on the
\* board, no match turn is ever played and board initialization comes to an
\* end, in a failure, instead of retrying for ever.
C11_ConfigError ==
    /\ [](~CanFit => turn_count = 0)
    /\ (~CanFit) ~> SetupFailed

\* Both boards of SpecTwin have taken the same attacks and hold the same
\* contents, as placed, in every cell that was attacked.
TwinAgree ==
    /\ pc = "loop"
    /\ \A p \in Players : Encrypted(p)
    /\ resolved["Alice"] = resolved["Bob"]
    /\ ShipParts(placed_grid["Alice"]) = ShipParts(placed_grid["Bob"])
    /\ \A x \in resolved["Alice"] : placed_grid["Alice"][x] = placed_grid["Bob"][x]

\* C12 (confidentiality of untouched cells): two defender boards with valid
\* placements of the same number of ship parts that agree on every attacked
\* cell show the opponent the same outcome, the same guess_board and the same
\* remaining parts after every attack of the same sequence; and a guess_board
\* entry is other than unknown only for an attacked cell.
C12_Noninterference ==
    /\ TwinAgree =>
          /\ observed["Alice"] = observed["Bob"]
          /\ guess_board["Alice"] = guess_board["Bob"]
    /\ \A p \in Players, x \in Cells : guess_board[p][x] # "." => x \in resolved[p]

\* C12 witness: two boards placed differently, attacked on two cells that hold
\* a ship in both: the opponent saw a Hit and 1 remaining part in each.
C12_Witness ==
    /\ TwinAgree
    /\ placed_grid["Alice"] # placed_grid["Bob"]
    /\ Cardinality(resolved["Alice"]) = 2
    /\ observed["Alice"] = [outcome |-> "Hit", remaining_life |-> 1]
    /\ observed["Bob"] = [outcome |-> "Hit", remaining_life |-> 1]

\* C13 (frame of one resolved attack): a Hit on the defender's cell (row, col)
\* changes plain_grid there from 1 to 0, encrypted_grid there to a ciphertext
\* of 0 and guess_board there to X, in one step; a Miss changes guess_board
\* there to O and neither grid; every other cell of the defender and all
\* three grids of the attacker are as before.
C13_AttackFrame ==
    [][(pc = "attack" /\ outcome' \in {"Hit", "Miss"}) =>
         LET x == <<row, col>> IN
         /\ \A y \in Cells \ {x} :
               /\ plain_grid'[defender][y] = plain_grid[defender][y]
               /\ encrypted_grid'[defender][y] = encrypted_grid[defender][y]
               /\ guess_board'[defender][y] = guess_board[defender][y]
         /\ plain_grid'[attacker] = plain_grid[attacker]
         /\ encrypted_grid'[attacker] = encrypted_grid[attacker]
         /\ guess_board'[attacker] = guess_board[attacker]
         /\ guess_board[defender][x] = "."
         /\ IF outcome' = "Hit"
            THEN /\ plain_grid[defender][x] = 1
                 /\ plain_grid'[defender][x] = 0
                 /\ encrypted_grid'[defender][x] # encrypted_grid[defender][x]
                 /\ Decrypt(defender, encrypted_grid[defender][x]) = 1
                 /\ Decrypt(defender, encrypted_grid'[defender][x]) = 0
                 /\ guess_board'[defender][x] = "X"
            ELSE /\ plain_grid'[defender] = plain_grid[defender]
                 /\ encrypted_grid'[defender] = encrypted_grid[defender]
                 /\ guess_board'[defender][x] = "O"]_vars

\* C13 witness: a Miss resolved on Alice's board after a Hit on it, Bob's
\* board having taken a Hit between them.
C13_Witness ==
    /\ pc = "wincheck"
    /\ defender = "Alice"
    /\ outcome = "Miss"
    /\ guess_board["Alice"][<<row, col>>] = "O"
    /\ hits["Alice"] = 1
    /\ hits["Bob"] >= 1
    /\ turn_count = 4

\* C14 (decrement only on ship cells): the encryption of -1 is added to a
\* cell only when its plaintext is 1 at that moment, so every encrypted cell
\* of a match decrypts to 0 or 1, never below 0 and never above 1.
C14_CellsZeroOrOne ==
    [][/\ \A p \in Players, x \in Cells :
            encrypted_grid[p][x] # None =>
               /\ Decrypt(p, encrypted_grid[p][x]) \in {0, 1}
               /\ encrypted_grid'[p][x] # encrypted_grid[p][x] =>
                     /\ plain_grid[p][x] = 1
                     /\ Decrypt(p, encrypted_grid[p][x]) = 1
                     /\ Decrypt(p, encrypted_grid'[p][x]) = 0
       /\ \A p \in Players, x \in Cells :
            encrypted_grid'[p][x] # None =>
               Decrypt(p, encrypted_grid'[p][x]) \in {0, 1}]_vars

\* C14 witness: a match state in which a missed cell of Bob's board still
\* decrypts to 0 and a hit cell decrypts to 0 as well, with a ship part left.
C14_Witness ==
    /\ pc = "wincheck"
    /\ \E x, y, z \in Cells :
          /\ guess_board["Bob"][x] = "O"
          /\ Decrypt("Bob", encrypted_grid["Bob"][x]) = 0
          /\ guess_board["Bob"][y] = "X"
          /\ Decrypt("Bob", encrypted_grid["Bob"][y]) = 0
          /\ guess_board["Bob"][z] = "."
          /\ Decrypt("Bob", encrypted_grid["Bob"][z]) = 1

\* C15 (placement search progress), as claimed: for every ship-size list that
\* can fit on the board, every partial placement the retry loop reaches leaves
\* a valid position and orientation for the next ship, and under fair random
\* choice place_ships ends with all ships placed.
C15_FitsProgress ==
    /\ []((CanFit /\ pc = "place") => HasValidPosition)
    /\ \A p \in Players :
          (CanFit /\ pc = "place" /\ ctor = p) ~> PlacedAll(p)

\* C15, amended: the same for every ship-size list the board is large
\* relative to (Roomy), the shipped configuration among them; a list that
\* fits in particular arrangements only can bring the retry loop to a partial
\* placement with no valid position left.
C15_RoomyProgress ==
    /\ []((Roomy /\ pc = "place") => HasValidPosition)
    /\ \A p \in Players :
          (Roomy /\ pc = "place" /\ ctor = p) ~> PlacedAll(p)

\* C15 witness: Bob's place_ships has placed its two ships on a board the
\* fleet has room on, after Alice's did.
C15_Witness ==
    /\ Roomy
    /\ PlacedAll("Bob")
    /\ Len(ship_sizes) = 2
    /\ Len(fleet["Alice"]) = 2

\* The remaining parts of player p's board, as the health oracle returns them
\* whatever obfuscator it draws.
Life(p) ==
    LET Oracle(n) == \A obf \in rand_pool :
                        check_health_homomorphically(p, encrypted_grid[p], obf) = n
    IN IF \E n \in 0 .. Cardinality(Cells) : Oracle(n)
       THEN CHOOSE n \in 0 .. Cardinality(Cells) : Oracle(n)
       ELSE -1

\* C16 (redundant oracle call): the controller that consults the health oracle
\* only after a Hit, run beside main on the same placements and coordinates,
\* has finished exactly when main has, with the same winner, so both play the
\* same turns on the same boards.
C16_LazyEquivalent ==
    /\ lazy.game_over = game_over
    /\ lazy.winner = winner

\* C16 witness: both controllers finished on the same turn with Bob the
\* winner, in a match where the oracle call was skipped after Misses of Bob's
\* and after wasted turns of Alice's.
C16_Witness ==
    /\ pc = "done"
    /\ lazy = [game_over |-> TRUE, winner |-> "Bob"]
    /\ winner = "Bob"
    /\ \E x \in Cells : guess_board["Alice"][x] = "O"
    /\ Cardinality(resolved["Bob"]) = 1
    /\ turn_count = 8

\* C17 (coordinates in range), for whatever value GRID_SIZE is configured to:
\* the row and column the controller indexes the defender's guess_board with
\* and passes to receive_attack lie in 0 .. GRID_SIZE - 1, whether they come
\* from get_coordinates or from Bob's resampling loop.
C17_CoordsInRange ==
    pc \in {"coords", "attack", "wincheck", "IndexError"} => InGrid(row, col)

\* C18 (guess marks mirror the history): on every board and cell, the mark is
\* X exactly when the cell held a ship at placement and was attacked, and its
\* plain_grid value is 0 then; O exactly when it was empty at placement and
\* was attacked; "." exactly when it was never attacked, and its plain_grid
\* value is the placed one then; so the X marks and the remaining parts add up
\* to the ship parts placed.
C18_MarksMirrorHistory ==
    \A p \in Players :
       /\ \A x \in Cells :
             /\ guess_board[p][x] = "X" <=> (x \in resolved[p] /\ placed_grid[p][x] = 1)
             /\ guess_board[p][x] = "O" <=> (x \in resolved[p] /\ placed_grid[p][x] = 0)
             /\ guess_board[p][x] = "." <=> x \notin resolved[p]
             /\ guess_board[p][x] = "X" => plain_grid[p][x] = 0
             /\ (Encrypted(p) /\ guess_board[p][x] = ".") =>
                   plain_grid[p][x] = placed_grid[p][x]
       /\ Encrypted(p) =>
             \A obf \in rand_pool :
                Cardinality({x \in Cells : guess_board[p][x] = "X"})
                   + check_health_homomorphically(p, encrypted_grid[p], obf)
                   = ShipParts(placed_grid[p])

\* C18 witness: Alice's board with one X, one O and two unknown cells, two
\* ship parts remaining of three.
C18_Witness ==
    /\ Cardinality({x \in Cells : guess_board["Alice"][x] = "X"}) = 1
    /\ Cardinality({x \in Cells : guess_board["Alice"][x] = "O"}) = 1
    /\ Cardinality({x \in Cells : guess_board["Alice"][x] = "."}) = 2
    /\ Life("Alice") = 2
    /\ ShipParts(placed_grid["Alice"]) = 3

\* C19 (both boards alive at the start of a turn): while the match is in
\* progress, at the start of a turn both boards have more than 0 remaining
\* parts; so on Bob's turn Alice's guess_board has an unknown cell for the
\* resampling loop to find; and when the match has finished exactly one board
\* has 0 remaining parts, the loser's, and the winner's has more.
C19_BothAliveAtTurnStart ==
    /\ ((pc = "loop" /\ ~game_over) \/ pc \in {"coords", "attack"}) =>
          \A p \in Players : Life(p) > 0
    /\ (pc = "coords" /\ attacker = "Bob") =>
          /\ defender = "Alice"
          /\ \E x \in Cells : guess_board["Alice"][x] = "."
    /\ game_over =>
          /\ winner \in Players
          /\ Life(winner) > 0
          /\ Life(Other(winner)) = 0

\* C19 witness: Bob's fourth turn starts, one cell of Alice's board is still
\* unknown and it holds her last ship part.
C19_Witness ==
    /\ pc = "coords"
    /\ attacker = "Bob"
    /\ turn_count = 8
    /\ Cardinality({x \in Cells : guess_board["Alice"][x] = "."}) = 1
    /\ Life("Alice") = 1
    /\ Life("Bob") > 0

\* C20 (bounded match length): Bob never repeats a cell, so the even turns
\* played are as many as the cells of Alice's board he attacked, at most
\* GRID_SIZE * GRID_SIZE, and the turn counter never exceeds twice that,
\* whatever Alice chooses.
C20_TurnBound ==
    /\ turn_count <= 2 * grid_size * grid_size
    /\ turn_count \div 2 <= grid_size * grid_size
    /\ pc = "loop" => turn_count \div 2 = Cardinality(resolved["Alice"])

\* C20 witness: turn 2 * GRID_SIZE * GRID_SIZE is played, Alice having wasted
\* every turn of hers after the first.
C20_Witness ==
    /\ turn_count = 2 * grid_size * grid_size
    /\ pc = "wincheck"
    /\ Cardinality(resolved["Bob"]) = 1
    /\ Cardinality(resolved["Alice"]) = grid_size * grid_size

====
